---- MODULE Spec2Model ----
(***************************************************************************)
(* Evidence-quality scoring of hl-compare-backend/compare.py.              *)
(*                                                                         *)
(* The scorer is a family of pure functions over a list of document        *)
(* descriptors (dicts with optional "filename" and "size" keys).  The      *)
(* state machine is the request cycle of main.py: the upload layer builds  *)
(* document_metadata, a scoring function is called on it, the call         *)
(* returns.                                                                *)
(*                                                                         *)
(* Python floats are modelled as exact rationals [num, den] in lowest      *)
(* terms.  The binary rounding error of the float operations (below 1e-12  *)
(* on every value here) is visible only where a computed float is rounded  *)
(* at a decimal tie or compared with a threshold its exact value equals.   *)
(* There the sign of the accumulated error decides, and the model takes    *)
(* the sign from RoundingErrors: -1 below, 0 exact, 1 above.               *)
(***************************************************************************)
EXTENDS Integers, Sequences, FiniteSets, TLC

VARIABLES
    document_metadata,  \* the descriptors of the request
    result,             \* the latest call and what it returned
    previous,           \* an earlier call of the same request
    invocations         \* the frames of the invocations running side by side

vars == <<document_metadata, result, previous, invocations>>

---------------------------------------------------------------------------
(* Bounds of the model *)

\* documents of one request
MaxDocs == 3

\* documents of one request when only their number matters
MaxCountDocs == 9
MaxTypedDocs == 5
MaxSharedDocs == 2
MaxPermutedDocs == 3

---------------------------------------------------------------------------
(* Exact rational arithmetic standing for float arithmetic *)

Abs(i) == IF i < 0 THEN -i ELSE i

RECURSIVE GCD(_, _)
GCD(a, b) == IF b = 0 THEN a ELSE GCD(b, a % b)

R(n, d) ==
    LET g == GCD(Abs(n), d)
    IN  [num |-> n \div g, den |-> d \div g]

I(n) == [num |-> n, den |-> 1]

RAdd(x, y) == R(x.num * y.den + y.num * x.den, x.den * y.den)
RSub(x, y) == R(x.num * y.den - y.num * x.den, x.den * y.den)
RMul(x, y) ==
    LET g1 == GCD(Abs(x.num), y.den)
        g2 == GCD(Abs(y.num), x.den)
    IN  R((x.num \div g1) * (y.num \div g2), (x.den \div g2) * (y.den \div g1))
RLt(x, y) == x.num * y.den < y.num * x.den
RLe(x, y) == x.num * y.den <= y.num * x.den
RGe(x, y) == RLe(y, x)
RMin(x, y) == IF RLt(y, x) THEN y ELSE x
RMax(x, y) == IF RLt(x, y) THEN y ELSE x

Floor(x) == x.num \div x.den

\* the sign of the rounding error carried by a computed float
RoundingErrors == {-1, 0, 1}

\* round(x) of the float x + err: the nearest integer, an exact half to the
\* even one
round_float(x, err) ==
    LET f == Floor(x)
        twice == 2 * (x.num - f * x.den)
    IN  IF twice > x.den THEN f + 1
        ELSE IF twice < x.den THEN f
        ELSE IF err > 0 THEN f + 1
        ELSE IF err < 0 THEN f
        ELSE IF f % 2 = 1 THEN f + 1 ELSE f

\* round(x, 1) of the float x + err: the nearest tenth
round1_float(x, err) == R(round_float(RMul(x, I(10)), err), 10)

\* x + err >= t, for an integer threshold t
float_ge(x, err, t) == RLt(I(t), x) \/ (x = I(t) /\ err >= 0)

---------------------------------------------------------------------------
(* Strings: str.lower() and the `in` substring test *)

UpperCase == "ABCDEFGHIJKLMNOPQRSTUVWXYZ"
LowerCase == "abcdefghijklmnopqrstuvwxyz"

\* the lower-case letter of every upper-case letter
LowerMap ==
    [c \in {SubSeq(UpperCase, i, i) : i \in 1..Len(UpperCase)} |->
        LET i == CHOOSE j \in 1..Len(UpperCase) : SubSeq(UpperCase, j, j) = c
        IN  SubSeq(LowerCase, i, i)]

LowerChar(c) == IF c \in DOMAIN LowerMap THEN LowerMap[c] ELSE c

\* str.lower(), letter by letter
RECURSIVE lower_scan(_)
lower_scan(s) ==
    IF Len(s) = 0 THEN ""
    ELSE LowerChar(SubSeq(s, 1, 1)) \o lower_scan(SubSeq(s, 2, Len(s)))

\* term in s, position by position
In_scan(term, s) ==
    \E i \in 1..(Len(s) - Len(term) + 1) : SubSeq(s, i, i + Len(term) - 1) = term

\* the filenames of the descriptors below; their lower-case forms and the
\* substrings of these are computed once
KnownFilenames ==
    {"AAPL_10-K_2023.pdf", "Goldman_Research.pdf", "Press_Release.txt",
     "MSFT_10-Q_Report.PDF", "notes.txt", "Annual_Analyst_News.pdf",
     "Goldman_Press_Release.pdf", "Research_Study.docx", "news_analysis.txt",
     "WHITEPAPER.PDF", ""}

LowerOf == [s \in KnownFilenames |-> lower_scan(s)]

SubstringsOf ==
    [s \in {LowerOf[f] : f \in KnownFilenames} |->
        {""} \cup {SubSeq(s, i, j) : i \in 1..Len(s), j \in 1..Len(s)}]

lower(s) == IF s \in DOMAIN LowerOf THEN LowerOf[s] ELSE lower_scan(s)

\* term in filename
In(term, s) ==
    IF s \in DOMAIN SubstringsOf THEN term \in SubstringsOf[s] ELSE In_scan(term, s)

AnyTermIn(terms, s) == \E t \in terms : In(t, s)

---------------------------------------------------------------------------
(* Document descriptors: dicts, read with doc.get(key, default) *)

\* a descriptor, or a record of locals, with no key
EmptyDict == [key \in {} |-> 0]

GetFilename(doc) == IF "filename" \in DOMAIN doc THEN doc.filename ELSE ""
\* GetSize with a missing size read as 100000 bytes
GetSize_default_100k(doc) == IF "size" \in DOMAIN doc THEN doc.size ELSE 100000

GetSize(doc) == IF "size" \in DOMAIN doc THEN doc.size ELSE 0

---------------------------------------------------------------------------
(* assess_source_credibility *)

OfficialFilingTerms == {"10-k", "10k", "annual", "quarterly", "10-q", "10q"}
MajorAnalystTerms == {"analyst", "research", "morgan", "goldman", "jp", "citi"}
ResearchDocumentTerms == {"whitepaper", "study", "analysis", "report"}
PressTerms == {"press", "news", "release"}

\* base_score with the analyst bucket tested before the official one
base_score_analyst_first(filename) ==
    IF AnyTermIn(MajorAnalystTerms, filename) THEN 80
    ELSE IF AnyTermIn(OfficialFilingTerms, filename) THEN 90
    ELSE IF AnyTermIn(ResearchDocumentTerms, filename) THEN 70
    ELSE IF AnyTermIn(PressTerms, filename) THEN 60
    ELSE 65

base_score(filename) ==
    IF AnyTermIn(OfficialFilingTerms, filename) THEN 90
    ELSE IF AnyTermIn(MajorAnalystTerms, filename) THEN 80
    ELSE IF AnyTermIn(ResearchDocumentTerms, filename) THEN 70
    ELSE IF AnyTermIn(PressTerms, filename) THEN 60
    ELSE 65

\* size_bonus with the two upper boundaries given to the larger bonus
size_bonus_inclusive(size) ==
    IF size >= 5000000 THEN 10
    ELSE IF size >= 1000000 THEN 5
    ELSE IF size < 100000 THEN -15
    ELSE 0

size_bonus(size) ==
    IF size > 5000000 THEN 10
    ELSE IF size > 1000000 THEN 5
    ELSE IF size < 100000 THEN -15
    ELSE 0

IMin(a, b) == IF a < b THEN a ELSE b
IMax(a, b) == IF a > b THEN a ELSE b

\* credibility_score without the clamp to [40, 95]
credibility_score_unclamped(doc) ==
    base_score(lower(GetFilename(doc))) + size_bonus(GetSize(doc))

credibility_score(doc) ==
    IMin(95, IMax(40, base_score(lower(GetFilename(doc))) + size_bonus(GetSize(doc))))

RECURSIVE SumCredibility(_)
SumCredibility(docs) ==
    IF Len(docs) = 0 THEN 0
    ELSE credibility_score(Head(docs)) + SumCredibility(Tail(docs))

\* assess_source_credibility with the floor division //
assess_source_credibility_floordiv(docs) ==
    IF Len(docs) = 0 THEN I(50)
    ELSE I(SumCredibility(docs) \div Len(docs))

\* assess_source_credibility keeping the score of the latest document only
assess_source_credibility_latest(docs) ==
    IF Len(docs) = 0 THEN I(50)
    ELSE I(credibility_score(docs[Len(docs)]))

assess_source_credibility(docs) ==
    IF Len(docs) = 0 THEN I(50)
    ELSE R(SumCredibility(docs), Len(docs))

---------------------------------------------------------------------------
(* calculate_consistency_score *)

OfficialTypeTerms == {"10-k", "10k", "annual", "quarterly"}
AnalystTypeTerms == {"analyst", "research"}
NewsTypeTerms == {"news", "press"}

\* the inline classification of the loop in calculate_consistency_score
consistency_doc_type(doc) ==
    LET filename == lower(GetFilename(doc))
    IN  IF AnyTermIn(OfficialTypeTerms, filename) THEN "official"
        ELSE IF AnyTermIn(AnalystTypeTerms, filename) THEN "analyst"
        ELSE IF AnyTermIn(NewsTypeTerms, filename) THEN "news"
        ELSE "other"

\* category_modifier with the category tag read without regard to case
category_modifier_caseless(category) ==
    CASE lower(category) = "financial_performance" -> R(11, 10)
      [] lower(category) = "valuation_metrics" -> R(11, 10)
      [] lower(category) = "management_quality" -> R(9, 10)
      [] lower(category) = "esg_factors" -> R(85, 100)
      [] lower(category) = "competitive_position" -> R(95, 100)
      [] OTHER -> I(1)

category_modifier(category) ==
    CASE category = "financial_performance" -> R(11, 10)
      [] category = "valuation_metrics" -> R(11, 10)
      [] category = "management_quality" -> R(9, 10)
      [] category = "esg_factors" -> R(85, 100)
      [] category = "competitive_position" -> R(95, 100)
      [] OTHER -> I(1)

\* calculate_consistency_score without the cap of 85 on the base
calculate_consistency_score_uncapped(entity, category, docs) ==
    IF Len(docs) <= 1 THEN I(60)
    ELSE LET doc_count == Len(docs)
             base_consistency == 50 + doc_count * 8
             doc_types == {consistency_doc_type(docs[i]) : i \in 1..Len(docs)}
             diversity_bonus == Cardinality(doc_types) * 5
             modifier == category_modifier(category)
         IN  RMin(I(95), RMul(I(base_consistency + diversity_bonus), modifier))

\* calculate_consistency_score with a bonus for documents named after the entity
calculate_consistency_score_entity_bonus(entity, category, docs) ==
    IF Len(docs) <= 1 THEN I(60)
    ELSE LET doc_count == Len(docs)
             base_consistency == IMin(85, 50 + doc_count * 8)
             doc_types == {consistency_doc_type(docs[i]) : i \in 1..Len(docs)}
             entity_bonus ==
                 IF \E i \in 1..Len(docs) :
                        In(lower(entity), lower(GetFilename(docs[i])))
                 THEN 5 ELSE 0
             diversity_bonus == Cardinality(doc_types) * 5 + entity_bonus
             modifier == category_modifier(category)
         IN  RMin(I(95), RMul(I(base_consistency + diversity_bonus), modifier))

\* calculate_consistency_score with 65 for at most one document
calculate_consistency_score_single_65(entity, category, docs) ==
    IF Len(docs) <= 1 THEN I(65)
    ELSE LET doc_count == Len(docs)
             base_consistency == IMin(85, 50 + doc_count * 8)
             doc_types == {consistency_doc_type(docs[i]) : i \in 1..Len(docs)}
             diversity_bonus == Cardinality(doc_types) * 5
             modifier == category_modifier(category)
         IN  RMin(I(95), RMul(I(base_consistency + diversity_bonus), modifier))

calculate_consistency_score(entity, category, docs) ==
    IF Len(docs) <= 1 THEN I(60)
    ELSE LET doc_count == Len(docs)
             base_consistency == IMin(85, 50 + doc_count * 8)
             doc_types == {consistency_doc_type(docs[i]) : i \in 1..Len(docs)}
             diversity_bonus == Cardinality(doc_types) * 5
             modifier == category_modifier(category)
         IN  RMin(I(95), RMul(I(base_consistency + diversity_bonus), modifier))

---------------------------------------------------------------------------
(* calculate_triangulation_score *)

\* calculate_triangulation_score with a step of 5 per extra document
calculate_triangulation_score_step5(docs) ==
    LET doc_count == Len(docs)
    IN  IF doc_count = 1 THEN I(45)
        ELSE IF doc_count = 2 THEN I(65)
        ELSE IF doc_count = 3 THEN I(80)
        ELSE I(IMin(95, 80 + (doc_count - 3) * 5))

calculate_triangulation_score(docs) ==
    LET doc_count == Len(docs)
    IN  IF doc_count = 1 THEN I(45)
        ELSE IF doc_count = 2 THEN I(65)
        ELSE IF doc_count = 3 THEN I(80)
        ELSE I(IMin(95, 80 + (doc_count - 3) * 3))

---------------------------------------------------------------------------
(* assess_temporal_reliability *)

\* assess_temporal_reliability without the floor of 40
assess_temporal_reliability_no_floor(docs) ==
    IF Len(docs) = 0 THEN I(60)
    ELSE LET base_temporal ==
                 IF Len(docs) >= 3 THEN 80
                 ELSE IF Len(docs) >= 2 THEN 75
                 ELSE 70
             small_file_penalty ==
                 Cardinality({i \in 1..Len(docs) : GetSize(docs[i]) < 100000}) * 5
         IN  I(IMin(90, base_temporal - small_file_penalty))

\* assess_temporal_reliability with 85 as the base from three documents on
\* and 5 more for every document that is not small
assess_temporal_reliability_large_bonus(docs) ==
    IF Len(docs) = 0 THEN I(60)
    ELSE LET base_temporal ==
                 IF Len(docs) >= 3 THEN 85
                 ELSE IF Len(docs) >= 2 THEN 75
                 ELSE 70
             large_file_bonus ==
                 Cardinality({i \in 1..Len(docs) : GetSize(docs[i]) >= 100000}) * 5
         IN  I(IMax(40, IMin(90, base_temporal + large_file_bonus)))

assess_temporal_reliability(docs) ==
    IF Len(docs) = 0 THEN I(60)
    ELSE LET base_temporal ==
                 IF Len(docs) >= 3 THEN 80
                 ELSE IF Len(docs) >= 2 THEN 75
                 ELSE 70
             small_file_penalty ==
                 Cardinality({i \in 1..Len(docs) : GetSize(docs[i]) < 100000}) * 5
         IN  I(IMax(40, IMin(90, base_temporal - small_file_penalty)))

---------------------------------------------------------------------------
(* assess_evidence_diversity and get_doc_type *)

get_doc_type(doc) ==
    LET filename == lower(GetFilename(doc))
    IN  IF AnyTermIn({"10-k", "10k", "annual", "quarterly"}, filename) THEN "official"
        ELSE IF AnyTermIn({"analyst", "research"}, filename) THEN "analyst"
        ELSE IF AnyTermIn({"news", "press"}, filename) THEN "news"
        ELSE "other"

quantitative_categories == {"financial_performance", "valuation_metrics"}
qualitative_categories == {"management_quality", "esg_factors", "competitive_position"}

\* assess_evidence_diversity counting official documents by the keyword
\* list of assess_source_credibility
assess_evidence_diversity_filing_terms(category, docs) ==
    IF Len(docs) = 0 THEN I(50)
    ELSE LET doc_count == Len(docs)
             base_diversity == IMin(80, 50 + doc_count * 7)
             official_docs ==
                 Cardinality({i \in 1..Len(docs) :
                     AnyTermIn(OfficialFilingTerms, lower(GetFilename(docs[i])))})
             doc_types == Cardinality({get_doc_type(docs[i]) : i \in 1..Len(docs)})
         IN  IF category \in quantitative_categories
             THEN I(IMin(95, base_diversity + official_docs * 8))
             ELSE IF category \in qualitative_categories
             THEN I(IMin(95, base_diversity + doc_types * 6))
             ELSE I(IMin(95, base_diversity))

assess_evidence_diversity(category, docs) ==
    IF Len(docs) = 0 THEN I(50)
    ELSE LET doc_count == Len(docs)
             base_diversity == IMin(80, 50 + doc_count * 7)
             official_docs ==
                 Cardinality({i \in 1..Len(docs) :
                     AnyTermIn({"10-k", "10k", "annual", "quarterly"},
                               lower(GetFilename(docs[i])))})
             doc_types == Cardinality({get_doc_type(docs[i]) : i \in 1..Len(docs)})
         IN  IF category \in quantitative_categories
             THEN I(IMin(95, base_diversity + official_docs * 8))
             ELSE IF category \in qualitative_categories
             THEN I(IMin(95, base_diversity + doc_types * 6))
             ELSE I(IMin(95, base_diversity))

---------------------------------------------------------------------------
(* get_quality_rating and generate_reliability_flags *)

\* quality_rating_float with the boundaries given to the lower band
quality_rating_float_strict(evidence_quality, err) ==
    IF RLt(I(85), evidence_quality) THEN "Excellent"
    ELSE IF RLt(I(75), evidence_quality) THEN "Good"
    ELSE IF RLt(I(65), evidence_quality) THEN "Moderate"
    ELSE IF RLt(I(55), evidence_quality) THEN "Limited"
    ELSE "Poor"

\* get_quality_rating applied to the float evidence_quality + err
quality_rating_float(evidence_quality, err) ==
    IF float_ge(evidence_quality, err, 85) THEN "Excellent"
    ELSE IF float_ge(evidence_quality, err, 75) THEN "Good"
    ELSE IF float_ge(evidence_quality, err, 65) THEN "Moderate"
    ELSE IF float_ge(evidence_quality, err, 55) THEN "Limited"
    ELSE "Poor"

get_quality_rating(evidence_quality) == quality_rating_float(evidence_quality, 0)

\* the flag texts, without their leading warning / check-mark symbols
FlagLowCredibility == "Low source credibility"
FlagInconsistent == "Inconsistent information across sources"
FlagLimitedConfirmation == "Limited independent confirmation"
FlagNoConcerns == "No major reliability concerns"

\* generate_reliability_flags with the credibility threshold included
generate_reliability_flags_inclusive(credibility, consistency, triangulation) ==
    LET f1 == IF RLe(credibility, I(60)) THEN <<FlagLowCredibility>> ELSE <<>>
        f2 == IF RLt(consistency, I(65)) THEN <<FlagInconsistent>> ELSE <<>>
        f3 == IF RLt(triangulation, I(60)) THEN <<FlagLimitedConfirmation>> ELSE <<>>
        flags == f1 \o f2 \o f3
    IN  IF flags = <<>> THEN <<FlagNoConcerns>> ELSE flags

generate_reliability_flags(credibility, consistency, triangulation) ==
    LET f1 == IF RLt(credibility, I(60)) THEN <<FlagLowCredibility>> ELSE <<>>
        f2 == IF RLt(consistency, I(65)) THEN <<FlagInconsistent>> ELSE <<>>
        f3 == IF RLt(triangulation, I(60)) THEN <<FlagLimitedConfirmation>> ELSE <<>>
        flags == f1 \o f2 \o f3
    IN  IF flags = <<>> THEN <<FlagNoConcerns>> ELSE flags

---------------------------------------------------------------------------
(* calculate_evidence_quality_score *)

\* weights with consistency at 0.35, summing to 1.05
weights_heavy_consistency ==
    [source_credibility |-> R(25, 100),
     consistency |-> R(35, 100),
     triangulation |-> R(20, 100),
     temporal |-> R(15, 100),
     diversity |-> R(10, 100)]

weights ==
    [source_credibility |-> R(25, 100),
     consistency |-> R(30, 100),
     triangulation |-> R(20, 100),
     temporal |-> R(15, 100),
     diversity |-> R(10, 100)]

\* evidence_quality: the weighted combination of the five factors
weighted_composite(source_credibility, consistency_score, triangulation_score, temporal_score, diversity_score) ==
    RAdd(RAdd(RAdd(RAdd(
        RMul(source_credibility, weights.source_credibility),
        RMul(consistency_score, weights.consistency)),
        RMul(triangulation_score, weights.triangulation)),
        RMul(temporal_score, weights.temporal)),
        RMul(diversity_score, weights.diversity))

\* adjust_confidence without the ceiling of 99
adjust_confidence_no_ceiling(base_confidence, evidence_quality) ==
    LET quality_adjustment == RMul(RSub(evidence_quality, I(70)), R(3, 10))
    IN  RMax(I(40), RAdd(I(base_confidence), quality_adjustment))

\* adjust_confidence with the adjustment added at full scale
adjust_confidence_unscaled(base_confidence, evidence_quality) ==
    LET quality_adjustment == RSub(evidence_quality, I(70))
    IN  RMin(I(99), RMax(I(40), RAdd(I(base_confidence), quality_adjustment)))

\* quality_adjustment and the clamped, not yet rounded, adjusted_confidence
\* adjust_confidence with 100 as the ceiling
adjust_confidence_ceiling_100(base_confidence, evidence_quality) ==
    LET quality_adjustment == RMul(RSub(evidence_quality, I(70)), R(3, 10))
    IN  RMin(I(100), RMax(I(40), RAdd(I(base_confidence), quality_adjustment)))

\* adjust_confidence with the quality adjustment subtracted
adjust_confidence_inverted(base_confidence, evidence_quality) ==
    LET quality_adjustment == RMul(RSub(evidence_quality, I(70)), R(3, 10))
    IN  RMin(I(99), RMax(I(40), RSub(I(base_confidence), quality_adjustment)))

adjust_confidence(base_confidence, evidence_quality) ==
    LET quality_adjustment == RMul(RSub(evidence_quality, I(70)), R(3, 10))
    IN  RMin(I(99), RMax(I(40), RAdd(I(base_confidence), quality_adjustment)))

\* the local variables of calculate_evidence_quality_score before the return
evidence_quality_locals(entity, category, docs, base_confidence) ==
    LET source_credibility == assess_source_credibility(docs)
        consistency_score == calculate_consistency_score(entity, category, docs)
        triangulation_score == calculate_triangulation_score(docs)
        temporal_score == assess_temporal_reliability(docs)
        diversity_score == assess_evidence_diversity(category, docs)
        evidence_quality ==
            weighted_composite(source_credibility, consistency_score,
                               triangulation_score, temporal_score, diversity_score)
    IN  [source_credibility |-> source_credibility,
         consistency_score |-> consistency_score,
         triangulation_score |-> triangulation_score,
         temporal_score |-> temporal_score,
         diversity_score |-> diversity_score,
         evidence_quality |-> evidence_quality,
         adjusted_confidence |-> adjust_confidence(base_confidence, evidence_quality)]

\* the rounding errors the four computed floats of a call can meet
AllSigns ==
    [evidence_quality |-> RoundingErrors, adjusted_confidence |-> RoundingErrors,
     source_credibility |-> RoundingErrors, consistency_score |-> RoundingErrors]

\* the dicts the return statement can build from the locals when the
\* rounding errors are among signs; the composite, the adjusted confidence,
\* the credibility mean and the consistency product are computed floats, the
\* other three sub-scores are integers
evidence_quality_return_under(l, signs) ==
    {[evidence_quality_score |-> eq.score,
      adjusted_confidence |-> ac,
      quality_breakdown |->
          [source_credibility |-> sc,
           cross_document_consistency |-> cs,
           evidence_triangulation |-> round1_float(l.triangulation_score, 0),
           temporal_reliability |-> round1_float(l.temporal_score, 0),
           evidence_diversity |-> round1_float(l.diversity_score, 0)],
      quality_rating |-> eq.rating,
      reliability_flags |->
          generate_reliability_flags(l.source_credibility, l.consistency_score,
                                     l.triangulation_score)] :
        eq \in {[score |-> round1_float(l.evidence_quality, e),
                 rating |-> quality_rating_float(l.evidence_quality, e)] :
                    e \in signs.evidence_quality},
        ac \in {round_float(l.adjusted_confidence, e) : e \in signs.adjusted_confidence},
        sc \in {round1_float(l.source_credibility, e) : e \in signs.source_credibility},
        cs \in {round1_float(l.consistency_score, e) : e \in signs.consistency_score}}

evidence_quality_return(l) == evidence_quality_return_under(l, AllSigns)

calculate_evidence_quality_score(entity, category, docs, base_confidence) ==
    evidence_quality_return(evidence_quality_locals(entity, category, docs, base_confidence))

---------------------------------------------------------------------------
(* calculate_overall_evidence_quality and assess_source_reliability_detailed *)

\* the dicts calculate_overall_evidence_quality can return; the mean and the
\* credibility are computed floats.  The other three scores are integers, so
\* the mean is an integer only if the credibility is one, and the float
\* operations are then exact: the rating, whose thresholds are integers,
\* meets no rounding error.
calculate_overall_evidence_quality(docs) ==
    IF Len(docs) = 0
    THEN {[overall_score |-> I(50), rating |-> "Limited"]}
    ELSE LET source_credibility == assess_source_credibility(docs)
             consistency == calculate_consistency_score("", "overall", docs)
             triangulation == calculate_triangulation_score(docs)
             temporal == assess_temporal_reliability(docs)
             overall_score ==
                 RMul(RAdd(RAdd(RAdd(source_credibility, consistency), triangulation),
                           temporal),
                      R(1, 4))
         IN  {[overall_score |-> round1_float(overall_score, e),
               rating |-> get_quality_rating(overall_score),
               document_count |-> Len(docs),
               credibility_score |-> round1_float(source_credibility, c),
               consistency_score |-> round1_float(consistency, 0),
               triangulation_score |-> round1_float(triangulation, 0),
               temporal_score |-> round1_float(temporal, 0)] :
                 e \in RoundingErrors, c \in RoundingErrors}

\* source_types after the loop: the number of documents of every type present
source_types(docs) ==
    [t \in {get_doc_type(docs[i]) : i \in 1..Len(docs)} |->
        Cardinality({i \in 1..Len(docs) : get_doc_type(docs[i]) = t})]

\* dict.get(key, default)
Get(dict, key, default) == IF key \in DOMAIN dict THEN dict[key] ELSE default

\* medium_reliability counting the analyst documents only
medium_reliability_analyst_only(types) == Get(types, "analyst", 0)

medium_reliability(types) == Get(types, "analyst", 0) + Get(types, "other", 0)

\* the dicts assess_source_reliability_detailed can return; a credibility
\* that is an integer is an exact float, so the rating meets no rounding error
assess_source_reliability_detailed(docs) ==
    IF Len(docs) = 0
    THEN {[overall_score |-> "Limited", details |-> EmptyDict]}
    ELSE LET credibility == assess_source_credibility(docs)
             types == source_types(docs)
         IN  {[overall_score |-> get_quality_rating(credibility),
               credibility_score |-> round1_float(credibility, e),
               source_distribution |-> types,
               high_reliability |-> Get(types, "official", 0),
               medium_reliability |-> medium_reliability(types),
               requires_verification |-> Get(types, "news", 0),
               total_sources |-> Len(docs)] : e \in RoundingErrors}

---------------------------------------------------------------------------
(* generate_enhanced_analysis: the confidence *)

RECURSIVE SumSizes(_)
SumSizes(docs) ==
    IF Len(docs) = 0 THEN 0 ELSE GetSize(Head(docs)) + SumSizes(Tail(docs))

\* a quantitative, a qualitative and another category of compare_entities
EnhancedCategories == {"valuation_metrics", "management_quality", "risk_factors"}

\* random.randint(-5, 5)
Jitters == -5..5

\* int(base_conf); base_conf is at least 65, so int() is the floor
enhanced_base_conf(docs, jitter) ==
    LET doc_count == Len(docs)
        size_mb == R(SumSizes(docs), 1000000)
        base_conf == RAdd(I(70 + IMin(doc_count * 5, 20)), RMin(size_mb, I(10)))
    IN  Floor(RAdd(base_conf, I(jitter)))

\* confidence, quality and flags of generate_enhanced_analysis
generate_enhanced_analysis(entity, category, docs, jitter) ==
    {[confidence |-> IMax(60, eqs.adjusted_confidence),
      quality |-> eqs.quality_rating,
      flags |-> eqs.reliability_flags] :
        eqs \in calculate_evidence_quality_score(entity, category, docs,
                                                 enhanced_base_conf(docs, jitter))}

---------------------------------------------------------------------------
(* Inputs *)

\* descriptors as main.py builds them, and descriptors lacking a key
DocPool ==
    {[filename |-> "AAPL_10-K_2023.pdf", size |-> 6000000],
     [filename |-> "Goldman_Research.pdf", size |-> 1500000],
     [filename |-> "Press_Release.txt", size |-> 50000],
     [filename |-> "MSFT_10-Q_Report.PDF", size |-> 1000000],
     [filename |-> "notes.txt"],
     [size |-> 500000]}

Entities == {"AAPL", "MSFT"}

Categories ==
    {"financial_performance", "valuation_metrics", "management_quality",
     "esg_factors", "competitive_position", "risk_factors", "overall"}

BaseConfidences == {-1000, 40, 70, 99, 10000}

\* scores handed to get_quality_rating directly, in twentieths
ScoreInputs ==
    {R(k, 20) : k \in {0, 1000, 1098, 1099, 1100, 1101, 1298, 1299, 1300, 1301,
                       1498, 1499, 1500, 1501, 1698, 1699, 1700, 1701, 2000}}

---------------------------------------------------------------------------
(* The request cycle *)

NoResult == [op |-> "none"]

\* the invocations compare_entities makes for one category: one per entity
Invocations == {1, 2}

Idle == [pc |-> "idle"]

Init ==
    /\ document_metadata = <<>>
    /\ result = NoResult
    /\ previous = NoResult
    /\ invocations = [i \in Invocations |-> Idle]

\* main.py builds one descriptor per uploaded file
Upload(doc) ==
    /\ result = NoResult
    /\ Len(document_metadata) < MaxDocs
    /\ document_metadata' = Append(document_metadata, doc)
    /\ UNCHANGED <<result, previous, invocations>>

CalculateEvidenceQualityScore(entity, category, base_confidence) ==
    /\ result = NoResult
    /\ LET l == evidence_quality_locals(entity, category, document_metadata,
                                        base_confidence)
       IN  \E r \in evidence_quality_return(l) :
               result' = [op |-> "calculate_evidence_quality_score",
                          entity |-> entity,
                          category |-> category,
                          base_confidence |-> base_confidence,
                          locals |-> l,
                          ret |-> r]
    /\ UNCHANGED <<document_metadata, previous, invocations>>

CalculateTriangulationScore ==
    /\ result = NoResult
    /\ result' = [op |-> "calculate_triangulation_score",
                  ret |-> calculate_triangulation_score(document_metadata)]
    /\ UNCHANGED <<document_metadata, previous, invocations>>

GetQualityRating(evidence_quality) ==
    /\ result = NoResult
    /\ result' = [op |-> "get_quality_rating",
                  evidence_quality |-> evidence_quality,
                  ret |-> get_quality_rating(evidence_quality)]
    /\ UNCHANGED <<document_metadata, previous, invocations>>

\* the response is sent; the next request starts with no documents
Return ==
    /\ result # NoResult
    /\ result' = NoResult
    /\ previous' = NoResult
    /\ document_metadata' = <<>>
    /\ UNCHANGED invocations

Next ==
    \/ \E doc \in DocPool : Upload(doc)
    \/ \E entity \in Entities, category \in Categories,
          base_confidence \in BaseConfidences :
            CalculateEvidenceQualityScore(entity, category, base_confidence)
    \/ CalculateTriangulationScore
    \/ \E s \in ScoreInputs : GetQualityRating(s)
    \/ Return

Spec == Init /\ [][Next]_vars

---------------------------------------------------------------------------
(* Requests with many documents, for the scores that depend on the number  *)
(* of documents only.                                                      *)

CountPool ==
    {[filename |-> "AAPL_10-K_2023.pdf", size |-> 6000000],
     [filename |-> "notes.txt"]}

UploadMany(doc) ==
    /\ result = NoResult
    /\ Len(document_metadata) < MaxCountDocs
    /\ document_metadata' = Append(document_metadata, doc)
    /\ UNCHANGED <<result, previous, invocations>>

AssessTemporalReliability ==
    /\ result = NoResult
    /\ result' = [op |-> "assess_temporal_reliability",
                  ret |-> assess_temporal_reliability(document_metadata)]
    /\ UNCHANGED <<document_metadata, previous, invocations>>

GenerateEnhancedAnalysis(entity, category, jitter) ==
    /\ result = NoResult
    /\ \E r \in generate_enhanced_analysis(entity, category, document_metadata, jitter) :
           result' = [op |-> "generate_enhanced_analysis",
                      entity |-> entity,
                      category |-> category,
                      jitter |-> jitter,
                      base_conf |-> enhanced_base_conf(document_metadata, jitter),
                      ret |-> r]
    /\ UNCHANGED <<document_metadata, previous, invocations>>

NextCount ==
    \/ \E doc \in CountPool : UploadMany(doc)
    \/ CalculateTriangulationScore
    \/ AssessTemporalReliability
    \/ \E entity \in Entities, category \in EnhancedCategories, jitter \in Jitters :
            GenerateEnhancedAnalysis(entity, category, jitter)
    \/ Return

SpecCount == Init /\ [][NextCount]_vars

---------------------------------------------------------------------------
(* Requests whose documents are of the four source types, for              *)
(* calculate_consistency_score.                                            *)

TypePool ==
    {[filename |-> "AAPL_10-K_2023.pdf", size |-> 6000000],
     [filename |-> "Goldman_Research.pdf", size |-> 1500000],
     [filename |-> "Press_Release.txt", size |-> 50000],
     [filename |-> "MSFT_10-Q_Report.PDF", size |-> 1000000]}

\* the category tags of compare_entities, "overall", and tags outside the table
ConsistencyCategories == Categories \cup {"", "Financial_Performance"}

UploadTyped(doc) ==
    /\ result = NoResult
    /\ Len(document_metadata) < MaxTypedDocs
    /\ document_metadata' = Append(document_metadata, doc)
    /\ UNCHANGED <<result, previous, invocations>>

\* the locals of calculate_consistency_score; none exist on the early return
consistency_locals(category, docs) ==
    IF Len(docs) <= 1 THEN EmptyDict
    ELSE [doc_count |-> Len(docs),
          base_consistency |-> IMin(85, 50 + Len(docs) * 8),
          doc_types |-> {consistency_doc_type(docs[i]) : i \in 1..Len(docs)},
          modifier |-> category_modifier(category)]

CalculateConsistencyScore(entity, category) ==
    /\ result = NoResult
    /\ result' = [op |-> "calculate_consistency_score",
                  entity |-> entity,
                  category |-> category,
                  locals |-> consistency_locals(category, document_metadata),
                  ret |-> calculate_consistency_score(entity, category,
                                                      document_metadata)]
    /\ UNCHANGED <<document_metadata, previous, invocations>>

AssessEvidenceDiversity(category) ==
    /\ result = NoResult
    /\ result' = [op |-> "assess_evidence_diversity",
                  category |-> category,
                  ret |-> assess_evidence_diversity(category, document_metadata)]
    /\ UNCHANGED <<document_metadata, previous, invocations>>

CalculateOverallEvidenceQuality ==
    /\ result = NoResult
    /\ \E r \in calculate_overall_evidence_quality(document_metadata) :
           result' = [op |-> "calculate_overall_evidence_quality", ret |-> r]
    /\ UNCHANGED <<document_metadata, previous, invocations>>

AssessSourceReliabilityDetailed ==
    /\ result = NoResult
    /\ \E r \in assess_source_reliability_detailed(document_metadata) :
           result' = [op |-> "assess_source_reliability_detailed", ret |-> r]
    /\ UNCHANGED <<document_metadata, previous, invocations>>

NextTyped ==
    \/ \E doc \in TypePool : UploadTyped(doc)
    \/ \E entity \in Entities, category \in ConsistencyCategories :
            CalculateConsistencyScore(entity, category)
    \/ \E category \in ConsistencyCategories : AssessEvidenceDiversity(category)
    \/ CalculateOverallEvidenceQuality
    \/ AssessSourceReliabilityDetailed
    \/ Return

SpecTyped == Init /\ [][NextTyped]_vars

---------------------------------------------------------------------------
(* Requests with one document out of a wide range of descriptors, as the   *)
(* per-document calls assess_source_credibility([doc]) and                 *)
(* get_doc_type(doc) of generate_cross_references and                      *)
(* assess_source_reliability_detailed see them, and the functions called   *)
(* on their own.                                                           *)


SingleFilenames ==
    {"AAPL_10-K_2023.pdf", "MSFT_10-Q_Report.PDF", "Annual_Analyst_News.pdf",
     "Goldman_Press_Release.pdf", "Research_Study.docx", "news_analysis.txt",
     "Press_Release.txt", "WHITEPAPER.PDF", "notes.txt"}

SingleSizes == {0, 99999, 100000, 1000000, 1000001, 5000000, 5000001, 6000000}

SingleDocPool ==
    {[filename |-> f, size |-> sz] : f \in SingleFilenames, sz \in SingleSizes}
        \cup {[filename |-> f] : f \in SingleFilenames}
        \cup {[size |-> sz] : sz \in SingleSizes}
        \cup {EmptyDict}

\* sub-scores handed to generate_reliability_flags directly
FlagInputs == {I(55), R(1199, 20), I(60), I(64), I(65), I(70)}

UploadSingle(doc) ==
    /\ result = NoResult
    /\ document_metadata = <<>>
    /\ document_metadata' = <<doc>>
    /\ UNCHANGED <<result, previous, invocations>>

\* the loop variables of assess_source_credibility for one document
credibility_locals(doc) ==
    [filename |-> lower(GetFilename(doc)),
     size |-> GetSize(doc),
     base_score |-> base_score(lower(GetFilename(doc))),
     size_bonus |-> size_bonus(GetSize(doc))]

\* assess_source_credibility([doc]) for a document of the request
AssessSourceCredibility(i) ==
    /\ result = NoResult
    /\ result' = [op |-> "assess_source_credibility",
                  doc |-> document_metadata[i],
                  locals |-> credibility_locals(document_metadata[i]),
                  ret |-> assess_source_credibility(<<document_metadata[i]>>)]
    /\ UNCHANGED <<document_metadata, previous, invocations>>

GetDocType(i) ==
    /\ result = NoResult
    /\ result' = [op |-> "get_doc_type",
                  doc |-> document_metadata[i],
                  ret |-> get_doc_type(document_metadata[i])]
    /\ UNCHANGED <<document_metadata, previous, invocations>>

GenerateReliabilityFlags(credibility, consistency, triangulation) ==
    /\ result = NoResult
    /\ result' = [op |-> "generate_reliability_flags",
                  credibility |-> credibility,
                  consistency |-> consistency,
                  triangulation |-> triangulation,
                  ret |-> generate_reliability_flags(credibility, consistency,
                                                     triangulation)]
    /\ UNCHANGED <<document_metadata, previous, invocations>>

NextSingle ==
    \/ \E doc \in SingleDocPool : UploadSingle(doc)
    \/ \E i \in 1..Len(document_metadata) : AssessSourceCredibility(i)
    \/ \E i \in 1..Len(document_metadata) : GetDocType(i)
    \/ \E entity \in Entities, category \in Categories,
          base_confidence \in BaseConfidences :
            CalculateEvidenceQualityScore(entity, category, base_confidence)
    \/ \E c \in FlagInputs, s \in FlagInputs, t \in FlagInputs :
            GenerateReliabilityFlags(c, s, t)
    \/ Return

SpecSingle == Init /\ [][NextSingle]_vars

---------------------------------------------------------------------------
(* Requests that call calculate_evidence_quality_score several times over  *)
(* one document list, as compare_entities does for every entity and        *)
(* category.  A float operation gives the same float for the same          *)
(* operands, so calls with the same category, documents and base           *)
(* confidence meet the same rounding errors.                               *)

SharedPool ==
    {[filename |-> "AAPL_10-K_2023.pdf", size |-> 6000000],
     [filename |-> "Goldman_Research.pdf", size |-> 1500000],
     [filename |-> "notes.txt"]}

RepeatCategories == {"financial_performance", "overall"}
RepeatBaseConfidences == {70, 99}

UploadShared(doc) ==
    /\ result = NoResult
    /\ \A i \in Invocations : invocations[i] = Idle
    /\ Len(document_metadata) < MaxSharedDocs
    /\ document_metadata' = Append(document_metadata, doc)
    /\ UNCHANGED <<result, previous, invocations>>

\* the call meets the float operands of the earlier call c
SameOperands(c, category, base_confidence) ==
    c.category = category /\ c.base_confidence = base_confidence

\* the rounding errors under which the call c returned what it did
SignsOf(c) ==
    [evidence_quality |->
         {e \in RoundingErrors :
             /\ round1_float(c.locals.evidence_quality, e) = c.ret.evidence_quality_score
             /\ quality_rating_float(c.locals.evidence_quality, e) = c.ret.quality_rating},
     adjusted_confidence |->
         {e \in RoundingErrors :
             round_float(c.locals.adjusted_confidence, e) = c.ret.adjusted_confidence},
     source_credibility |->
         {e \in RoundingErrors :
             round1_float(c.locals.source_credibility, e)
                 = c.ret.quality_breakdown.source_credibility},
     consistency_score |->
         {e \in RoundingErrors :
             round1_float(c.locals.consistency_score, e)
                 = c.ret.quality_breakdown.cross_document_consistency}]

\* the rounding errors a call can meet after the earlier calls
SignsAfter(earlier, category, base_confidence) ==
    LET same == {c \in earlier : SameOperands(c, category, base_confidence)}
    IN  [x \in DOMAIN AllSigns |->
            {e \in RoundingErrors : \A c \in same : e \in SignsOf(c)[x]}]

\* a further call of the request; previous keeps one of the earlier calls
CalculateEvidenceQualityScoreAgain(entity, category, base_confidence) ==
    /\ result.op = "calculate_evidence_quality_score"
    /\ previous' \in {previous, result} \ {NoResult}
    /\ LET l == evidence_quality_locals(entity, category, document_metadata,
                                        base_confidence)
           signs == SignsAfter({previous, result} \ {NoResult}, category,
                               base_confidence)
       IN  \E r \in evidence_quality_return_under(l, signs) :
               result' = [op |-> "calculate_evidence_quality_score",
                          entity |-> entity,
                          category |-> category,
                          base_confidence |-> base_confidence,
                          locals |-> l,
                          ret |-> r]
    /\ UNCHANGED <<document_metadata, invocations>>

NextRepeat ==
    \/ \E doc \in SharedPool : UploadShared(doc)
    \/ \E entity \in Entities, category \in RepeatCategories,
          base_confidence \in RepeatBaseConfidences :
            CalculateEvidenceQualityScore(entity, category, base_confidence)
    \/ \E entity \in Entities, category \in RepeatCategories,
          base_confidence \in RepeatBaseConfidences :
            CalculateEvidenceQualityScoreAgain(entity, category, base_confidence)
    \/ Return

SpecRepeat == Init /\ [][NextRepeat]_vars

---------------------------------------------------------------------------
(* Invocations of calculate_evidence_quality_score over one document list  *)
(* running side by side, one statement of one invocation at a time.  Each   *)
(* invocation has a frame of its own with its parameters and its locals.   *)

ConcurrentCategories == {"financial_performance", "esg_factors", "overall"}
ConcurrentBaseConfidence == 70

\* compare_entities calls for entityA and for entityB
EntityOf(i) == IF i = 1 THEN "AAPL" ELSE "MSFT"

InFlight(frame) == frame.pc \notin {"idle", "done"}

\* the read of a local variable, as if the locals were module-level globals
\* that every invocation assigns
Local_global(i, name) ==
    IF \E j \in Invocations \ {i} :
           InFlight(invocations[j]) /\ name \in DOMAIN invocations[j].locals
    THEN LET j == CHOOSE j \in Invocations \ {i} :
                      InFlight(invocations[j]) /\ name \in DOMAIN invocations[j].locals
         IN  invocations[j].locals[name]
    ELSE invocations[i].locals[name]

\* the read of a local variable by invocation i
Local(i, name) == invocations[i].locals[name]

Bind(locals, name, value) ==
    [k \in DOMAIN locals \cup {name} |-> IF k = name THEN value ELSE locals[k]]

\* the frames after a step of invocation i; interleaved records for every
\* invocation in flight that another one took a step meanwhile
StepFrames(i, frame) ==
    [j \in Invocations |->
        IF j = i THEN frame
        ELSE IF InFlight(invocations[j])
        THEN [invocations[j] EXCEPT !.interleaved = TRUE]
        ELSE invocations[j]]

Call(i, category) ==
    /\ result = NoResult
    /\ invocations[i] = Idle
    /\ invocations' =
           StepFrames(i, [pc |-> "source_credibility",
                          entity |-> EntityOf(i),
                          category |-> category,
                          base_confidence |-> ConcurrentBaseConfidence,
                          locals |-> EmptyDict,
                          interleaved |-> FALSE])
    /\ UNCHANGED <<document_metadata, result, previous>>

\* the assignment name = value at pc, control passing to next
Assign(i, pc, name, value, next) ==
    /\ invocations[i].pc = pc
    /\ invocations' =
           StepFrames(i, [invocations[i] EXCEPT
                             !.pc = next,
                             !.locals = Bind(invocations[i].locals, name, value)])
    /\ UNCHANGED <<document_metadata, result, previous>>

SourceCredibility(i) ==
    Assign(i, "source_credibility", "source_credibility",
           assess_source_credibility(document_metadata), "consistency_score")

ConsistencyScore(i) ==
    Assign(i, "consistency_score", "consistency_score",
           calculate_consistency_score(invocations[i].entity, invocations[i].category,
                                       document_metadata),
           "triangulation_score")

TriangulationScore(i) ==
    Assign(i, "triangulation_score", "triangulation_score",
           calculate_triangulation_score(document_metadata), "temporal_score")

TemporalScore(i) ==
    Assign(i, "temporal_score", "temporal_score",
           assess_temporal_reliability(document_metadata), "diversity_score")

DiversityScore(i) ==
    Assign(i, "diversity_score", "diversity_score",
           assess_evidence_diversity(invocations[i].category, document_metadata),
           "evidence_quality")

EvidenceQuality(i) ==
    Assign(i, "evidence_quality", "evidence_quality",
           weighted_composite(Local(i, "source_credibility"),
                              Local(i, "consistency_score"),
                              Local(i, "triangulation_score"),
                              Local(i, "temporal_score"),
                              Local(i, "diversity_score")),
           "adjusted_confidence")

AdjustedConfidence(i) ==
    Assign(i, "adjusted_confidence", "adjusted_confidence",
           adjust_confidence(invocations[i].base_confidence,
                             Local(i, "evidence_quality")),
           "return")

\* the return statement reads the seven locals and builds the dict
ReturnDict(i) ==
    /\ invocations[i].pc = "return"
    /\ \E r \in evidence_quality_return(
                    [name \in DOMAIN invocations[i].locals |-> Local(i, name)]) :
           invocations' =
               StepFrames(i, [pc |-> "done",
                              entity |-> invocations[i].entity,
                              category |-> invocations[i].category,
                              base_confidence |-> invocations[i].base_confidence,
                              locals |-> invocations[i].locals,
                              interleaved |-> invocations[i].interleaved,
                              ret |-> r])
    /\ UNCHANGED <<document_metadata, result, previous>>

\* the results are collected; the next request starts with no documents
Collect ==
    /\ \A i \in Invocations : ~InFlight(invocations[i])
    /\ \E i \in Invocations : invocations[i].pc = "done"
    /\ invocations' = [i \in Invocations |-> Idle]
    /\ document_metadata' = <<>>
    /\ UNCHANGED <<result, previous>>

NextConcurrent ==
    \/ \E doc \in SharedPool : UploadShared(doc)
    \/ \E i \in Invocations, category \in ConcurrentCategories : Call(i, category)
    \/ \E i \in Invocations : SourceCredibility(i)
    \/ \E i \in Invocations : ConsistencyScore(i)
    \/ \E i \in Invocations : TriangulationScore(i)
    \/ \E i \in Invocations : TemporalScore(i)
    \/ \E i \in Invocations : DiversityScore(i)
    \/ \E i \in Invocations : EvidenceQuality(i)
    \/ \E i \in Invocations : AdjustedConfidence(i)
    \/ \E i \in Invocations : ReturnDict(i)
    \/ Collect

SpecConcurrent == Init /\ [][NextConcurrent]_vars

---------------------------------------------------------------------------
(* Requests whose document list is compared with its rearrangements.       *)

UploadPermuted(doc) ==
    /\ result = NoResult
    /\ Len(document_metadata) < MaxPermutedDocs
    /\ document_metadata' = Append(document_metadata, doc)
    /\ UNCHANGED <<result, previous, invocations>>

NextPermuted ==
    \/ \E doc \in SharedPool : UploadPermuted(doc)
    \/ \E entity \in Entities, category \in ConcurrentCategories,
          base_confidence \in RepeatBaseConfidences :
            CalculateEvidenceQualityScore(entity, category, base_confidence)
    \/ Return

SpecPermuted == Init /\ [][NextPermuted]_vars

---------------------------------------------------------------------------
(* Properties *)

IsScore == result.op = "calculate_evidence_quality_score"
IsTriangulation == result.op = "calculate_triangulation_score"
IsRating == result.op = "get_quality_rating"

RInRange(x, lo, hi) == RLe(I(lo), x) /\ RLe(x, I(hi))

\* C1: for every document list, entity, category and integer base
\* confidence, also far out of range, the adjusted confidence returned by
\* calculate_evidence_quality_score is an integer between 40 and 99.
C1_AdjustedConfidenceInRange ==
    IsScore => result.ret.adjusted_confidence \in 40..99

C1_Witness ==
    /\ IsScore
    /\ result.base_confidence = 10000
    /\ result.ret.adjusted_confidence = 99

\* C2: for an empty document list the five sub-scores are credibility 50,
\* consistency 60, triangulation 45, temporal 60 and diversity 50.
C2_EmptyListDefaults ==
    (IsScore /\ Len(document_metadata) = 0) =>
        /\ result.locals.source_credibility = I(50)
        /\ result.locals.consistency_score = I(60)
        /\ result.locals.triangulation_score = I(45)
        /\ result.locals.temporal_score = I(60)
        /\ result.locals.diversity_score = I(50)

\* C3: zero documents and base confidence 70 give evidence_quality_score
\* 51.5, adjusted_confidence 64 and quality_rating "Poor".
C3_EmptyListBase70 ==
    (IsScore /\ Len(document_metadata) = 0 /\ result.base_confidence = 70) =>
        /\ result.ret.evidence_quality_score = R(515, 10)
        /\ result.ret.adjusted_confidence = 64
        /\ result.ret.quality_rating = "Poor"

C5_RatingOfReportedScore ==
    IsScore =>
        result.ret.quality_rating = get_quality_rating(result.ret.evidence_quality_score)

Rank(rating) ==
    CASE rating = "Poor" -> 0
      [] rating = "Limited" -> 1
      [] rating = "Moderate" -> 2
      [] rating = "Good" -> 3
      [] rating = "Excellent" -> 4

\* C6: get_quality_rating gives Excellent from 85, Good on [75,85), Moderate
\* on [65,75), Limited on [55,65) and Poor below 55, and a lower score never
\* gets a higher rating.
C6_RatingBands ==
    IsRating =>
        LET s == result.evidence_quality
        IN  /\ result.ret \in {"Poor", "Limited", "Moderate", "Good", "Excellent"}
            /\ result.ret = "Excellent" <=> RLe(I(85), s)
            /\ result.ret = "Good" <=> (RLe(I(75), s) /\ RLt(s, I(85)))
            /\ result.ret = "Moderate" <=> (RLe(I(65), s) /\ RLt(s, I(75)))
            /\ result.ret = "Limited" <=> (RLe(I(55), s) /\ RLt(s, I(65)))
            /\ result.ret = "Poor" <=> RLt(s, I(55))
            /\ \A t \in ScoreInputs :
                   RLe(t, s) => Rank(get_quality_rating(t)) <= Rank(result.ret)

C6_Witness ==
    /\ IsRating
    /\ result.evidence_quality = I(85)
    /\ result.ret = "Excellent"

\* C7: the triangulation score of a document list is at least the score of
\* each of its shorter prefixes, the empty one included.
C7_TriangulationMonotone ==
    IsTriangulation =>
        \A k \in 0..Len(document_metadata) :
            RLe(calculate_triangulation_score(SubSeq(document_metadata, 1, k)),
                result.ret)

\* C8: the triangulation score is decided by the number of documents: 45
\* for 1, 65 for 2, 80 for 3, min(95, 80 + 3 * (count - 3)) from 4 on, so
\* 89 for 6 and 95 from 8 on.
C8_TriangulationSteps ==
    IsTriangulation =>
        LET count == Len(document_metadata)
        IN  /\ count = 1 => result.ret = I(45)
            /\ count = 2 => result.ret = I(65)
            /\ count = 3 => result.ret = I(80)
            /\ count >= 4 => result.ret = I(IMin(95, 80 + 3 * (count - 3)))
            /\ count = 6 => result.ret = I(89)
            /\ count >= 8 => result.ret = I(95)

C8_Witness ==
    /\ IsTriangulation
    /\ Len(document_metadata) = 8
    /\ result.ret = I(95)

RMin5(a, b, c, d, e) == RMin(a, RMin(b, RMin(c, RMin(d, e))))
RMax5(a, b, c, d, e) == RMax(a, RMax(b, RMax(c, RMax(d, e))))

\* C9: the composite is 0.25 credibility + 0.30 consistency + 0.20
\* triangulation + 0.15 temporal + 0.10 diversity, the weights sum to 1, and
\* the composite lies between the smallest and the largest sub-score.
C9_WeightedComposite ==
    IsScore =>
        LET l == result.locals
        IN  /\ RMul(I(100), l.evidence_quality) =
                   RAdd(RAdd(RAdd(RAdd(
                       RMul(I(25), l.source_credibility),
                       RMul(I(30), l.consistency_score)),
                       RMul(I(20), l.triangulation_score)),
                       RMul(I(15), l.temporal_score)),
                       RMul(I(10), l.diversity_score))
            /\ RAdd(RAdd(RAdd(RAdd(weights.source_credibility, weights.consistency),
                   weights.triangulation), weights.temporal), weights.diversity) = I(1)
            /\ RLe(RMin5(l.source_credibility, l.consistency_score,
                         l.triangulation_score, l.temporal_score, l.diversity_score),
                   l.evidence_quality)
            /\ RLe(l.evidence_quality,
                   RMax5(l.source_credibility, l.consistency_score,
                         l.triangulation_score, l.temporal_score, l.diversity_score))

\* one small press release: credibility 45, consistency 60, triangulation
\* 45, temporal 65, diversity 57, composite 53.7
C9_Witness ==
    /\ IsScore
    /\ Len(document_metadata) = 1
    /\ result.locals.source_credibility = I(45)
    /\ result.locals.evidence_quality = R(537, 10)

\* C10: the adjusted confidence is base_confidence + 0.3 * (composite - 70),
\* clamped to [40, 99] and rounded to a nearest integer; with a composite
\* of 70 a base confidence within [40, 99] is returned unchanged.
C10_AdjustedConfidenceFormula ==
    IsScore =>
        LET composite == result.locals.evidence_quality
            raw == RAdd(I(result.base_confidence),
                        RMul(RSub(composite, I(70)), R(3, 10)))
            clamped == IF RLt(raw, I(40)) THEN I(40)
                       ELSE IF RLt(I(99), raw) THEN I(99)
                       ELSE raw
            distance == RSub(I(result.ret.adjusted_confidence), clamped)
        IN  /\ RLe(R(-1, 2), distance)
            /\ RLe(distance, R(1, 2))
            /\ (composite = I(70) /\ result.base_confidence \in 40..99) =>
                   result.ret.adjusted_confidence = result.base_confidence

\* three large official filings, financial_performance: composite 87.32,
\* adjustment +5.196, base 70 gives 75
C10_Witness ==
    /\ IsScore
    /\ result.base_confidence = 70
    /\ result.locals.evidence_quality = R(8732, 100)
    /\ result.ret.adjusted_confidence = 75

IsFlags == result.op = "generate_reliability_flags"

Range(seq) == {seq[i] : i \in 1..Len(seq)}

FlagOrder(flag) ==
    CASE flag = FlagLowCredibility -> 1
      [] flag = FlagInconsistent -> 2
      [] flag = FlagLimitedConfirmation -> 3
      [] flag = FlagNoConcerns -> 4

\* C11: generate_reliability_flags returns one warning for each of
\* credibility < 60, consistency < 65, triangulation < 60 that holds, in
\* that order, and the single positive flag exactly when none holds; the
\* list is never empty, has at most three entries and never mixes a warning
\* with the positive flag.
C11_ReliabilityFlags ==
    IsFlags =>
        LET flags == result.ret
        IN  /\ Len(flags) \in 1..3
            /\ FlagLowCredibility \in Range(flags) <=> RLt(result.credibility, I(60))
            /\ FlagInconsistent \in Range(flags) <=> RLt(result.consistency, I(65))
            /\ FlagLimitedConfirmation \in Range(flags)
                   <=> RLt(result.triangulation, I(60))
            /\ FlagNoConcerns \in Range(flags)
                   <=> (/\ ~RLt(result.credibility, I(60))
                        /\ ~RLt(result.consistency, I(65))
                        /\ ~RLt(result.triangulation, I(60)))
            /\ FlagNoConcerns \in Range(flags) => flags = <<FlagNoConcerns>>
            /\ \A i \in 1..Len(flags) : \A j \in 1..Len(flags) :
                   i < j => FlagOrder(flags[i]) < FlagOrder(flags[j])
            /\ (/\ result.credibility = I(55)
                /\ result.consistency = I(70)
                /\ result.triangulation = I(70)) => flags = <<FlagLowCredibility>>

C11_Witness ==
    /\ IsFlags
    /\ result.credibility = I(55)
    /\ result.consistency = I(70)
    /\ result.triangulation = I(70)
    /\ result.ret = <<FlagLowCredibility>>

IsNumber(x) == DOMAIN x = {"num", "den"} /\ x.num \in Int /\ x.den \in Nat \ {0}

Ratings == {"Poor", "Limited", "Moderate", "Good", "Excellent"}

WellFormed(ret) ==
    /\ DOMAIN ret = {"evidence_quality_score", "adjusted_confidence",
                     "quality_breakdown", "quality_rating", "reliability_flags"}
    /\ IsNumber(ret.evidence_quality_score)
    /\ ret.adjusted_confidence \in Int
    /\ DOMAIN ret.quality_breakdown =
           {"source_credibility", "cross_document_consistency",
            "evidence_triangulation", "temporal_reliability", "evidence_diversity"}
    /\ \A k \in DOMAIN ret.quality_breakdown : IsNumber(ret.quality_breakdown[k])
    /\ ret.quality_rating \in Ratings
    /\ Len(ret.reliability_flags) >= 1
    /\ Range(ret.reliability_flags) \subseteq
           {FlagLowCredibility, FlagInconsistent, FlagLimitedConfirmation,
            FlagNoConcerns}

\* C12: a descriptor without a filename is scored as the empty filename
\* (base 65, type "other"), one without a size as size 0 (credibility
\* adjustment -15, temporal penalty -5), and calculate_evidence_quality_score
\* returns a complete result for such descriptors and for no documents.
C12_MissingKeysDefaults ==
    IsScore =>
        /\ WellFormed(result.ret)
        /\ Len(document_metadata) = 1 =>
               LET doc == document_metadata[1]
                   no_filename == "filename" \notin DOMAIN doc
                   no_size == "size" \notin DOMAIN doc
               IN  /\ no_filename =>
                          /\ get_doc_type(doc) = "other"
                          /\ consistency_doc_type(doc) = "other"
                          /\ no_size => result.locals.source_credibility = I(65 - 15)
                          /\ ~no_size => result.locals.source_credibility =
                                 I(65 + (IF doc.size > 5000000 THEN 10
                                         ELSE IF doc.size > 1000000 THEN 5
                                         ELSE IF doc.size < 100000 THEN -15
                                         ELSE 0))
                   /\ no_size =>
                          /\ result.locals.temporal_score = I(70 - 5)
                          /\ result.locals.source_credibility =
                                 I(IMax(40, base_score(lower(GetFilename(doc))) - 15))

C12_Witness ==
    /\ IsScore
    /\ document_metadata = <<EmptyDict>>
    /\ result.locals.source_credibility = I(50)
    /\ result.locals.temporal_score = I(65)
    /\ WellFormed(result.ret)

IsCredibility == result.op = "assess_source_credibility"

\* the buckets of assess_source_credibility in their priority order
Buckets ==
    << [terms |-> OfficialFilingTerms, base |-> 90],
       [terms |-> MajorAnalystTerms, base |-> 80],
       [terms |-> ResearchDocumentTerms, base |-> 70],
       [terms |-> PressTerms, base |-> 60] >>

MatchingBuckets(name) ==
    {k \in 1..Len(Buckets) : AnyTermIn(Buckets[k].terms, lower(name))}

\* C15: the base score of a filename is that of the highest-priority bucket
\* one of whose keywords occurs in the filename, whatever its letter case,
\* and 65 when no bucket matches.
C15_BucketPriority ==
    IsCredibility =>
        LET matching == MatchingBuckets(GetFilename(result.doc))
        IN  IF matching = {}
            THEN result.locals.base_score = 65
            ELSE \E k \in matching :
                    /\ \A j \in matching : k <= j
                    /\ result.locals.base_score = Buckets[k].base

C15_Witness ==
    /\ IsCredibility
    /\ GetFilename(result.doc) = "Annual_Analyst_News.pdf"
    /\ MatchingBuckets(GetFilename(result.doc)) = {1, 2, 4}
    /\ result.locals.base_score = 90

\* C16: the size adjustment is +10 above 5,000,000 bytes, +5 above 1,000,000
\* up to 5,000,000, 0 from 100,000 up to 1,000,000 and -15 below 100,000, and
\* exactly one of the four cases applies to a size.
C16_SizeAdjustment ==
    IsCredibility =>
        LET size == result.locals.size
            bonus == result.locals.size_bonus
            cases == << size > 5000000,
                        size > 1000000 /\ size <= 5000000,
                        size >= 100000 /\ size <= 1000000,
                        size < 100000 >>
            values == << 10, 5, 0, -15 >>
        IN  /\ size >= 0
            /\ Cardinality({k \in 1..4 : cases[k]}) = 1
            /\ \A k \in 1..4 : cases[k] => bonus = values[k]
            /\ size = 5000000 => bonus = 5
            /\ size = 1000000 => bonus = 0
            /\ size = 100000 => bonus = 0

C16_Witness ==
    /\ IsCredibility
    /\ "size" \in DOMAIN result.doc
    /\ result.doc.size = 5000000
    /\ result.locals.size_bonus = 5

Clamp(x, lo, hi) == IF x < lo THEN lo ELSE IF x > hi THEN hi ELSE x

\* the per-document credibility values of a list
PerDocumentCredibility(docs) ==
    [i \in 1..Len(docs) |->
        Clamp(base_score(lower(GetFilename(docs[i]))) + size_bonus(GetSize(docs[i])),
              40, 95)]

RECURSIVE SumSeq(_)
SumSeq(values) ==
    IF values = <<>> THEN 0 ELSE Head(values) + SumSeq(Tail(values))

AAPL10K == [filename |-> "AAPL_10-K_2023.pdf", size |-> 6000000]

\* C17: for a non-empty list the source credibility is the arithmetic mean
\* of the per-document values clamp(base + size adjustment, 40, 95); the
\* single document "AAPL_10-K_2023.pdf" of 6,000,000 bytes gives exactly 95.
C17_CredibilityMean ==
    (IsScore /\ Len(document_metadata) > 0) =>
        /\ RMul(I(Len(document_metadata)), result.locals.source_credibility)
               = I(SumSeq(PerDocumentCredibility(document_metadata)))
        /\ document_metadata = <<AAPL10K>> =>
               result.locals.source_credibility = I(95)

C17_Witness ==
    /\ IsScore
    /\ Len(document_metadata) = 3
    /\ document_metadata[1] = AAPL10K
    /\ PerDocumentCredibility(document_metadata) = <<95, 85, 50>>
    /\ result.locals.source_credibility = R(230, 3)

IsConsistency == result.op = "calculate_consistency_score"
IsTemporal == result.op = "assess_temporal_reliability"

SourceTypes == {"official", "analyst", "news", "other"}

\* the modifier table as the specification gives it
ExpectedModifier(category) ==
    IF category \in {"financial_performance", "valuation_metrics"} THEN R(11, 10)
    ELSE IF category = "management_quality" THEN R(9, 10)
    ELSE IF category = "esg_factors" THEN R(85, 100)
    ELSE IF category = "competitive_position" THEN R(95, 100)
    ELSE I(1)

\* C18: the consistency score is 60 for 0 or 1 documents whatever the
\* category, and for n >= 2 documents min(95, (min(85, 50 + 8n) + 5k) * modifier)
\* with k the number of source types present among the documents.
C18_ConsistencyFormula ==
    IsConsistency =>
        LET n == Len(document_metadata)
            k == Cardinality({t \in SourceTypes :
                     \E i \in 1..n : consistency_doc_type(document_metadata[i]) = t})
            base == IF 50 + 8 * n < 85 THEN 50 + 8 * n ELSE 85
            product == RMul(I(base + 5 * k), ExpectedModifier(result.category))
        IN  IF n <= 1
            THEN result.ret = I(60)
            ELSE result.ret = (IF RLt(product, I(95)) THEN product ELSE I(95))

C18_Witness ==
    /\ IsConsistency
    /\ Len(document_metadata) = 5
    /\ result.locals.doc_types = SourceTypes
    /\ result.category = "esg_factors"
    /\ result.ret = R(357, 4)

\* C19: the modifier is 1.1 for financial_performance and valuation_metrics,
\* 0.9 for management_quality, 0.85 for esg_factors, 0.95 for
\* competitive_position and 1.0 for every other tag, "overall" and unknown
\* tags included; the call returns a score for every tag.
C19_CategoryModifier ==
    IsConsistency =>
        /\ RInRange(result.ret, 0, 95)
        /\ Len(document_metadata) >= 2 =>
            LET category == result.category
                modifier == result.locals.modifier
            IN  /\ category = "financial_performance" => modifier = R(11, 10)
                /\ category = "valuation_metrics" => modifier = R(11, 10)
                /\ category = "management_quality" => modifier = R(9, 10)
                /\ category = "esg_factors" => modifier = R(85, 100)
                /\ category = "competitive_position" => modifier = R(95, 100)
                /\ category \notin quantitative_categories \cup qualitative_categories
                       => modifier = I(1)

C19_Witness ==
    /\ IsConsistency
    /\ Len(document_metadata) = 2
    /\ result.category = "Financial_Performance"
    /\ result.locals.modifier = I(1)
    /\ result.ret = R(76, 1)

\* C20: the temporal score is 60 for no documents and otherwise
\* clamp(70 + b - 5s, 40, 90), b being 10 from 3 documents on, 5 for 2 and 0
\* for 1, and s the number of documents smaller than 100,000 bytes.
C20_TemporalFormula ==
    IsTemporal =>
        LET n == Len(document_metadata)
            b == IF n >= 3 THEN 10 ELSE IF n = 2 THEN 5 ELSE 0
            s == Cardinality({i \in 1..n : GetSize(document_metadata[i]) < 100000})
        IN  IF n = 0
            THEN result.ret = I(60)
            ELSE result.ret = I(Clamp(70 + b - 5 * s, 40, 90))

C20_Witness ==
    /\ IsTemporal
    /\ Len(document_metadata) = 9
    /\ \A i \in 1..9 : GetSize(document_metadata[i]) = 0
    /\ result.ret = I(40)

\* C13: a call of calculate_evidence_quality_score leaves the document list
\* as it was, and returns what an earlier call over the same category,
\* documents and base confidence returned, whichever the entities of the two
\* calls and whatever was called in between.
C13_DeterministicStateless ==
    [][ result'.op = "calculate_evidence_quality_score" =>
            /\ document_metadata' = document_metadata
            /\ ( /\ previous'.op = "calculate_evidence_quality_score"
                 /\ previous'.category = result'.category
                 /\ previous'.base_confidence = result'.base_confidence )
               => ( /\ result'.locals = previous'.locals
                    /\ result'.ret = previous'.ret ) ]_vars

C13_Witness ==
    /\ IsScore
    /\ previous.op = "calculate_evidence_quality_score"
    /\ Len(document_metadata) = 2
    /\ document_metadata[1] = AAPL10K
    /\ previous.category = result.category
    /\ previous.base_confidence = result.base_confidence
    /\ previous.entity = "AAPL"
    /\ result.entity = "MSFT"
    /\ result.ret = previous.ret

Done(i) == invocations[i].pc = "done"

\* what invocation i returns when it runs alone
RunAlone(i) ==
    calculate_evidence_quality_score(invocations[i].entity, invocations[i].category,
                                     document_metadata, invocations[i].base_confidence)

\* C14: whatever the interleaving of the statements of the invocations
\* running over one document list, an invocation that has returned holds the
\* locals and returns a result it has when it runs alone.
C14_NoInterference ==
    \A i \in Invocations :
        Done(i) =>
            /\ invocations[i].locals =
                   evidence_quality_locals(invocations[i].entity,
                                           invocations[i].category, document_metadata,
                                           invocations[i].base_confidence)
            /\ invocations[i].ret \in RunAlone(i)

C14_Witness ==
    /\ Done(1) /\ Done(2)
    /\ invocations[1].interleaved /\ invocations[2].interleaved
    /\ invocations[1].category = "financial_performance"
    /\ invocations[2].category = "esg_factors"
    /\ Len(document_metadata) = 2
    /\ invocations[1].ret \in RunAlone(1)
    /\ invocations[2].ret \in RunAlone(2)
    /\ invocations[1].ret # invocations[2].ret

IsDiversity == result.op = "assess_evidence_diversity"

\* C21: the diversity score is 50 for no documents and otherwise
\* min(95, min(80, 50 + 7n) + add), add being 8 per document of type official
\* for the quantitative categories, 6 per source type present for the
\* qualitative ones and 0 for every other category; it is never below 50.
C21_DiversityFormula ==
    IsDiversity =>
        LET n == Len(document_metadata)
            category == result.category
            base == IF 50 + 7 * n < 80 THEN 50 + 7 * n ELSE 80
            official == Cardinality({i \in 1..n :
                            get_doc_type(document_metadata[i]) = "official"})
            types == Cardinality({t \in SourceTypes :
                         \E i \in 1..n : get_doc_type(document_metadata[i]) = t})
            add == IF category \in {"financial_performance", "valuation_metrics"}
                   THEN 8 * official
                   ELSE IF category \in {"management_quality", "esg_factors",
                                         "competitive_position"}
                   THEN 6 * types
                   ELSE 0
        IN  /\ IF n = 0
               THEN result.ret = I(50)
               ELSE result.ret = I(IF base + add < 95 THEN base + add ELSE 95)
            /\ RLe(I(50), result.ret)

C21_Witness ==
    /\ IsDiversity
    /\ Len(document_metadata) = 5
    /\ result.category = "valuation_metrics"
    /\ Cardinality({i \in 1..5 : get_doc_type(document_metadata[i]) = "official"}) = 1
    /\ result.ret = I(88)

\* the rearrangements of a list
Rearrangements(docs) ==
    {[i \in 1..Len(docs) |-> docs[p[i]]] : p \in Permutations(1..Len(docs))}

\* C22: the sub-scores, the composite, the adjusted confidence and the
\* results of calculate_evidence_quality_score are the same for every
\* rearrangement of the document list.
C22_PermutationInvariant ==
    IsScore =>
        \A docs \in Rearrangements(document_metadata) :
            /\ evidence_quality_locals(result.entity, result.category, docs,
                                       result.base_confidence) = result.locals
            /\ calculate_evidence_quality_score(result.entity, result.category, docs,
                                                result.base_confidence)
                   = calculate_evidence_quality_score(result.entity, result.category,
                                                      document_metadata,
                                                      result.base_confidence)
            /\ result.ret \in calculate_evidence_quality_score(
                                  result.entity, result.category, docs,
                                  result.base_confidence)

C22_Witness ==
    /\ IsScore
    /\ Len(document_metadata) = 3
    /\ Cardinality(Rearrangements(document_metadata)) = 6
    /\ document_metadata[3] = [filename |-> "notes.txt"]
    /\ result.category = "esg_factors"
    /\ result.locals.source_credibility = R(230, 3)

\* C23: a filename that assess_source_credibility scores as an official
\* filing is of type official for get_doc_type and for the classification
\* of calculate_consistency_score, and these two give every filename the
\* same type.
C23_ClassificationsAgree ==
    IsCredibility =>
        /\ result.locals.base_score = 90 =>
               /\ get_doc_type(result.doc) = "official"
               /\ consistency_doc_type(result.doc) = "official"
        /\ get_doc_type(result.doc) = consistency_doc_type(result.doc)

\* C24: for at most one document the flags of the result contain the
\* consistency warning, so the flag of no concerns appears only with two or
\* more documents.
C24_SingleSourceWarning ==
    IsScore =>
        /\ Len(document_metadata) <= 1 =>
               /\ result.locals.consistency_score = I(60)
               /\ FlagInconsistent \in Range(result.ret.reliability_flags)
        /\ FlagNoConcerns \in Range(result.ret.reliability_flags) =>
               Len(document_metadata) >= 2

C24_Witness ==
    /\ IsScore
    /\ document_metadata = <<AAPL10K>>
    /\ result.ret.reliability_flags = <<FlagInconsistent, FlagLimitedConfirmation>>

\* C25: the flags of the result contain the triangulation warning exactly
\* when there are fewer than two documents.
C25_TriangulationWarning ==
    IsScore =>
        (FlagLimitedConfirmation \in Range(result.ret.reliability_flags)
            <=> Len(document_metadata) < 2)

\* the adjusted confidences a call with this base confidence and composite
\* can report
ReportedConfidences(base_confidence, evidence_quality) ==
    {round_float(adjust_confidence(base_confidence, evidence_quality), e) :
        e \in RoundingErrors}

\* C26: with the documents and the category fixed, a larger base confidence
\* never gives a smaller adjusted confidence, and with the base confidence
\* fixed a larger composite never gives a smaller adjusted confidence.
C26_AdjustedConfidenceMonotone ==
    IsScore =>
        LET base == result.base_confidence
            composite == result.locals.evidence_quality
            adjusted == result.ret.adjusted_confidence
        IN  /\ \A b \in BaseConfidences \cup {base - 1, base + 1} :
                   \A a \in ReportedConfidences(b, composite) :
                       /\ b > base => a >= adjusted
                       /\ b < base => a <= adjusted
            /\ \A q \in ScoreInputs :
                   \A a \in ReportedConfidences(base, q) :
                       /\ RLt(composite, q) => a >= adjusted
                       /\ RLt(q, composite) => a <= adjusted

C26_Witness ==
    /\ IsScore
    /\ result.base_confidence = 70
    /\ result.ret.adjusted_confidence = 75
    /\ ReportedConfidences(71, result.locals.evidence_quality) = {76}
    /\ \E q \in ScoreInputs :
           /\ RLt(q, result.locals.evidence_quality)
           /\ ReportedConfidences(70, q) = {74}

IsOverall == result.op = "calculate_overall_evidence_quality"
IsDetailed == result.op = "assess_source_reliability_detailed"

\* C27: the rating calculate_overall_evidence_quality returns is
\* get_quality_rating of the overall_score it returns, for every list, the
\* empty one included.
C27_OverallRatingOfScore ==
    IsOverall => result.ret.rating = get_quality_rating(result.ret.overall_score)

RECURSIVE SumCounts(_)
SumCounts(counts) ==
    IF DOMAIN counts = {} THEN 0
    ELSE LET k == CHOOSE k \in DOMAIN counts : TRUE
         IN  counts[k] + SumCounts([j \in DOMAIN counts \ {k} |-> counts[j]])

\* C30: for a non-empty list the three reliability counts add up to
\* total_sources, which is the number of documents, and so do the counts of
\* source_distribution.
C30_ReliabilityPartition ==
    (IsDetailed /\ Len(document_metadata) > 0) =>
        /\ result.ret.total_sources = Len(document_metadata)
        /\ result.ret.high_reliability + result.ret.medium_reliability
               + result.ret.requires_verification = result.ret.total_sources
        /\ SumCounts(result.ret.source_distribution) = result.ret.total_sources

C30_Witness ==
    /\ IsDetailed
    /\ Len(document_metadata) = 5
    /\ result.ret.source_distribution =
           [t \in SourceTypes |-> IF t = "other" THEN 2 ELSE 1]
    /\ result.ret.high_reliability = 1
    /\ result.ret.medium_reliability = 3
    /\ result.ret.requires_verification = 1

IsEnhanced == result.op = "generate_enhanced_analysis"

\* C28: the confidence of generate_enhanced_analysis is an integer from 60
\* to 99, whatever the documents, the entity, the category and the jitter.
C28_ConfidenceInRange ==
    IsEnhanced =>
        /\ result.ret.confidence \in Int
        /\ result.ret.confidence >= 60
        /\ result.ret.confidence <= 99

C28_Witness ==
    /\ IsEnhanced
    /\ Len(document_metadata) = 5
    /\ result.jitter = 5
    /\ result.base_conf = 105
    /\ result.ret.confidence = 99

\* C29: the temporal score is at most 80, at most 75 for two documents and
\* at most 70 for one, so the ceiling of 90 is never reached.
C29_TemporalCeilingUnreached ==
    IsTemporal =>
        /\ RLe(result.ret, I(80))
        /\ Len(document_metadata) = 2 => RLe(result.ret, I(75))
        /\ Len(document_metadata) = 1 => RLe(result.ret, I(70))
        /\ result.ret # I(90)

C29_Witness ==
    /\ IsTemporal
    /\ Len(document_metadata) = 9
    /\ \A i \in 1..9 : GetSize(document_metadata[i]) = 6000000
    /\ result.ret = I(80)

=============================================================================
